---- MODULE Spec2Model ----
(***************************************************************************)
(* Maze generation (Wilson's algorithm), loop breaking and path resolution *)
(* of MazeGenerator, src/src/maze_generator.py, and the validation of the  *)
(* configuration by ParsingValidator.                                      *)
(*                                                                         *)
(* A cell is a pair <<row, col>>.  The grid self.maze is a function from   *)
(* the cells of the grid to wall-masks 0..15.  Every call of               *)
(* random.choice is one draw of the variable rng.                          *)
(***************************************************************************)
EXTENDS Integers, Sequences, FiniteSets, TLC

(***************************************************************************)
(* Bounds of the model.                                                    *)
(***************************************************************************)
\* grids of at most MaxH x MaxW and at most MaxCells cells are explored
\* under every outcome of random.choice
MaxH == 2
MaxW == 3
MaxCells == 6
\* the grids at the emblem threshold (LogoMinH x LogoMinW, and one row or
\* one column less) are explored under NumSeeds pseudo-random streams
NumSeeds == 2
\* the interface starts at most MaxRounds further generate / resolve rounds
MaxRounds == 1
\* the emblem pattern is computed for grids up to MaxGrow rows and columns
\* over the smallest grid that takes it
MaxGrow == 3

(***************************************************************************)
(* Program constants.                                                      *)
(***************************************************************************)
\* place_42: the emblem is placed when width >= 9 and height >= 7
LogoMinW == 9
LogoMinH == 7
\* the initial wall-mask of every cell
FullMask == 15
\* Python's None in the distance map
None == -1
\* break_wall: one wall per BreakPercent cells
BreakPercent == 100
\* ParsingValidator.check_dimensions: the largest width and height accepted
MAX_DIMENSION == 120

(***************************************************************************)
(* PathEnumerate: N = (1, 0), E = (2, 1), S = (4, 2), W = (8, 3).          *)
(***************************************************************************)
BitOf(d) == CASE d = "N" -> 1 [] d = "E" -> 2 [] d = "S" -> 4 [] d = "W" -> 8

ShiftOf(d) == CASE d = "N" -> 0 [] d = "E" -> 1 [] d = "S" -> 2 [] d = "W" -> 3

\* a slip of oppose_bit: the bit itself
oppose_bit_same(bit) == bit

oppose_bit(bit) ==
    CASE bit = 1 -> 4
      [] bit = 4 -> 1
      [] bit = 2 -> 8
      [] bit = 8 -> 2

\* a slip of the iteration: the order of the members of PathEnumerate
DirOrderEnum == <<"N", "E", "S", "W">>

\* MazeGenerator.dir, in the insertion order of the dict
DirOrder == <<"E", "W", "N", "S">>

Delta(d) ==
    CASE d = "E" -> <<0, 1>>
      [] d = "W" -> <<0, -1>>
      [] d = "N" -> <<-1, 0>>
      [] d = "S" -> <<1, 0>>

Step(pos, d) == <<pos[1] + Delta(d)[1], pos[2] + Delta(d)[2]>>

(***************************************************************************)
(* Integer bit operations of Python: a ^ b, a | b, (a >> s) & 1.           *)
(***************************************************************************)
RECURSIVE Xor(_, _)
Xor(a, b) ==
    IF a = 0 THEN b
    ELSE IF b = 0 THEN a
    ELSE 2 * Xor(a \div 2, b \div 2) + (((a % 2) + (b % 2)) % 2)

RECURSIVE BitOr(_, _)
BitOr(a, b) ==
    IF a = 0 THEN b
    ELSE IF b = 0 THEN a
    ELSE 2 * BitOr(a \div 2, b \div 2) + (IF (a % 2) + (b % 2) > 0 THEN 1 ELSE 0)

ShiftBit(a, s) == (a \div (2 ^ s)) % 2

(***************************************************************************)
(* Sequences and cell sets.                                                *)
(***************************************************************************)
Cells(h, w) == (0 .. h - 1) \X (0 .. w - 1)

SeqToSet(s) == {s[i] : i \in 1 .. Len(s)}

\* list.index(x): position (1-based here) of the first occurrence
\* a slip of the index: always the first position
IndexOfFirst(s, x) == 1

\* list.index: the first position of x in s
IndexOf(s, x) == CHOOSE i \in 1 .. Len(s) : s[i] = x /\ \A j \in 1 .. i - 1 : s[j] # x

\* list.remove(x): drop the first occurrence
Remove(s, x) ==
    LET i == IndexOf(s, x)
    IN  SubSeq(s, 1, i - 1) \o SubSeq(s, i + 1, Len(s))


(***************************************************************************)
(* random.choice.  rng = 0 is the generator seeded from system entropy:    *)
(* a draw below n may be any of 0 .. n-1.  rng > 0 is the state of a       *)
(* seeded generator (a Lehmer generator stands for it): a draw is          *)
(* determined by the state and advances it.                                *)
(***************************************************************************)
NextRng(r) == IF r = 0 THEN 0 ELSE (r * 75) % 65537

Draw(r, n) == IF r = 0 THEN 0 .. n - 1 ELSE {NextRng(r) % n}

\* value of a cell-valued local that is not assigned
NoCell == <<>>

VARIABLES
    width, height, entry_point, exit_point, perfect,  \* the configuration
    output_file,   \* the configuration: the output file name
    maze,          \* self.maze: cell -> wall-mask
    logo,          \* self.logo: the reserved cells
    path_str,      \* self.path_str: sequence of direction names
    path,          \* self.path: sequence of cells
    pc,            \* position in generate_maze / resolve_maze
    dir,           \* MazeGenerator.dir, shared by the instances: its keys in order
    rng,           \* state of the random generator
    unvisited, visited,      \* wilson
    start, w_path, walls,    \* wilson / random_walk: start, path, walls
    ci,                      \* wilson: index i of the carving loop
    wall_to_break, wall_break, bw_path,   \* break_wall (bw_path is its path)
    p, dir_cpy, tries,                    \* break_wall: p, dir_cpy, for-loop count
    dist,          \* get_general_path, resolve_maze: the distance map (their path)
    q_front, q_back,         \* get_general_path
    stack, ret,              \* find_quickest_path: active calls, returned pair
    found,         \* resolve_maze: the flag returned by find_quickest_path
    rounds,        \* the generate / resolve rounds the interface has started again
    called,        \* a caller of the accessors: the calls made and what they returned
    saved          \* a caller of resolve_maze: the results it read after a call

config == <<width, height, entry_point, exit_point, perfect, output_file>>
caller == <<rounds, called, saved>>
wilsonVars == <<unvisited, visited, start, w_path, walls, ci>>
breakVars == <<wall_to_break, wall_break, bw_path, p, dir_cpy, tries>>
resolveVars == <<path_str, path, dist, found, q_front, q_back, stack, ret>>
vars == <<config, caller, dir, maze, logo, pc, rng, wilsonVars, breakVars, resolveVars>>

AllCells == Cells(height, width)

\* the cells of the grid in the order of the nested loops
\* "for row ... for col ..."
GridOrder == [i \in 1 .. height * width |-> <<(i - 1) \div width, (i - 1) % width>>]

\* the cells of S in that order
RowMajor(S) == LET InS(c) == c \in S IN SelectSeq(GridOrder, InS)

(***************************************************************************)
(* Grid Model accessors.                                                   *)
(***************************************************************************)
check_bounds(point) ==
    /\ 0 <= point[1] /\ point[1] < height
    /\ 0 <= point[2] /\ point[2] < width

check_walls(m, point, d) == ShiftBit(m[point], ShiftOf(d)) = 1

\* a slip of the carving: the neighbour's side is forgotten
ToggleWallOneSide(m, pos, n_pos, bit) == [m EXCEPT ![pos] = Xor(@, bit)]

\* the two XOR assignments that open (or close) the wall between pos and n_pos
ToggleWall(m, pos, n_pos, bit) ==
    LET m1 == [m EXCEPT ![pos] = Xor(@, bit)]
    IN  [m1 EXCEPT ![n_pos] = Xor(@, oppose_bit(bit))]

(***************************************************************************)
(* place_42: the emblem pattern centred on the grid.                       *)
(***************************************************************************)
\* a slip of place_42: the column is not halved
Pattern42Uncentred(h, w) ==
    LET middle_h == h \div 2
        middle_w == w
    IN  {<<middle_h, middle_w - 2>>}
        \cup {<<middle_h - i, middle_w - 3>> : i \in 0 .. 2}
        \cup {<<middle_h + i, middle_w - 1>> : i \in 0 .. 2}
        \cup {<<middle_h, middle_w + 2>>}
        \cup {<<middle_h - i, middle_w + 3>> : i \in 0 .. 2}
        \cup {<<middle_h + i, middle_w + 1>> : i \in 0 .. 2}
        \cup {<<middle_h + 2, middle_w + i + 1>> : i \in 0 .. 2}
        \cup {<<middle_h - 2, middle_w + i + 1>> : i \in 0 .. 2}

\* lines 221-233: the cells place_42 adds to self.logo
Pattern42(h, w) ==
    LET middle_h == h \div 2
        middle_w == w \div 2
    IN  {<<middle_h, middle_w - 2>>}
        \cup {<<middle_h - i, middle_w - 3>> : i \in 0 .. 2}
        \cup {<<middle_h + i, middle_w - 1>> : i \in 0 .. 2}
        \cup {<<middle_h, middle_w + 2>>}
        \cup {<<middle_h - i, middle_w + 3>> : i \in 0 .. 2}
        \cup {<<middle_h + i, middle_w + 1>> : i \in 0 .. 2}
        \cup {<<middle_h + 2, middle_w + i + 1>> : i \in 0 .. 2}
        \cup {<<middle_h - 2, middle_w + i + 1>> : i \in 0 .. 2}

(***************************************************************************)
(* Validated configurations (ParsingValidator): dimensions >= 1, entry and *)
(* exit in bounds and different.                                           *)
(***************************************************************************)
Validated(h, w, en, ex) ==
    /\ h >= 1 /\ w >= 1
    /\ en \in Cells(h, w) /\ ex \in Cells(h, w)
    /\ en # ex

\* entry / exit pairs tried on the grids at the emblem threshold: the
\* corners and, where the emblem is placed, an entry on the "4" and an exit
\* on the "2"
ThresholdPoints(h, w) ==
    { <<<<0, 0>>, <<h - 1, w - 1>>>> }
    \cup IF h >= LogoMinH /\ w >= LogoMinW
         THEN { <<<<h \div 2, (w \div 2) - 2>>, <<h - 1, w - 1>>>>,
                <<<<0, 0>>, <<h \div 2, (w \div 2) + 2>>>> }
         ELSE {}

\* MazeGenerator.__init__, lines 97-103: the fields of a new instance (and
\* the locals of the methods, not assigned yet)
Unassigned ==
    /\ dir = DirOrder
    /\ rounds = 0 /\ called = <<>> /\ saved = <<>>
    /\ maze = <<>>
    /\ path_str = <<>>
    /\ path = <<>>
    /\ logo = {}
    /\ unvisited = {} /\ visited = {}
    /\ start = NoCell /\ w_path = <<>> /\ walls = <<>> /\ ci = 0
    /\ wall_to_break = 0 /\ wall_break = 0 /\ bw_path = <<>>
    /\ p = NoCell /\ dir_cpy = <<>> /\ tries = 0
    /\ dist = <<>> /\ found = FALSE
    /\ q_front = <<>> /\ q_back = <<>> /\ stack = <<>> /\ ret = <<>>

Constructed == pc = "constructed" /\ Unassigned

Init ==
    /\ \/ /\ height \in 1 .. MaxH
          /\ width \in 1 .. MaxW
          /\ height * width <= MaxCells
          /\ entry_point \in Cells(height, width)
          /\ exit_point \in Cells(height, width)
          /\ rng = 0
       \/ /\ height \in {LogoMinH - 1, LogoMinH}
          /\ width \in {LogoMinW - 1, LogoMinW}
          /\ (height = LogoMinH \/ width = LogoMinW)
          /\ \E ee \in ThresholdPoints(height, width) :
                entry_point = ee[1] /\ exit_point = ee[2]
          /\ rng \in 1 .. NumSeeds
    /\ Validated(height, width, entry_point, exit_point)
    /\ perfect \in BOOLEAN
    /\ output_file = "maze.txt"
    /\ Constructed

(***************************************************************************)
(* generate_maze, lines 185-199: the grid of 15s with the border bits      *)
(* OR-ed in.                                                               *)
(***************************************************************************)
BorderMask(row, col) ==
    LET m0 == 0
        m1 == IF row = 0 THEN BitOr(m0, BitOf("N")) ELSE m0
        m2 == IF row = height - 1 THEN BitOr(m1, BitOf("S")) ELSE m1
        m3 == IF col = 0 THEN BitOr(m2, BitOf("W")) ELSE m2
        m4 == IF col = width - 1 THEN BitOr(m3, BitOf("E")) ELSE m3
    IN  m4

GridInit ==
    /\ pc = "constructed"
    /\ maze' = [c \in AllCells |-> BitOr(FullMask, BorderMask(c[1], c[2]))]
    /\ pc' = "place_42"
    /\ UNCHANGED <<config, caller, dir, logo, rng, wilsonVars, breakVars, resolveVars>>

(***************************************************************************)
(* place_42, lines 208-238.                                                *)
(***************************************************************************)
\* a slip of place_42: the reservation is kept when it covers entry or exit
place_42_keep(h, w, en, ex, lg) ==
    IF ~(w >= LogoMinW /\ h >= LogoMinH) THEN lg
    ELSE lg \cup Pattern42(h, w)

\* a slip of place_42: strict comparisons
place_42_strict(h, w, en, ex, lg) ==
    IF ~(w > LogoMinW /\ h > LogoMinH) THEN lg
    ELSE LET added == lg \cup Pattern42(h, w)
         IN  IF en \in added \/ ex \in added THEN {} ELSE added

\* the value of self.logo after place_42
place_42(h, w, en, ex, lg) ==
    IF ~(w >= LogoMinW /\ h >= LogoMinH) THEN lg
    ELSE LET added == lg \cup Pattern42(h, w)
         IN  IF en \in added \/ ex \in added THEN {} ELSE added

Place42 ==
    /\ pc = "place_42"
    /\ logo' = place_42(height, width, entry_point, exit_point, logo)
    /\ pc' = "wilson_init"
    /\ UNCHANGED <<config, caller, dir, maze, rng, wilsonVars, breakVars, resolveVars>>

(***************************************************************************)
(* wilson, lines 297-306: the visited / unvisited sets.  set.remove of a   *)
(* missing element raises KeyError.                                        *)
(***************************************************************************)
WilsonInit ==
    /\ pc = "wilson_init"
    /\ visited' = {entry_point}
    /\ IF entry_point \in DOMAIN maze /\ logo \subseteq (DOMAIN maze \ {entry_point})
       THEN /\ unvisited' = (DOMAIN maze \ {entry_point}) \ logo
            /\ pc' = "wilson"
       ELSE /\ unvisited' = DOMAIN maze
            /\ pc' = "crashed"
    /\ UNCHANGED <<config, caller, dir, maze, logo, rng, start, w_path, walls, ci,
                   breakVars, resolveVars>>

\* wilson, lines 308-311: pick the start of the next walk
WilsonPick ==
    /\ pc = "wilson"
    /\ unvisited # {}
    /\ LET cand == RowMajor(unvisited)
       IN  \E i \in Draw(rng, Len(cand)) :
              /\ start' = cand[i + 1]
              /\ w_path' = <<cand[i + 1]>>
    /\ walls' = <<>>
    /\ rng' = NextRng(rng)
    /\ pc' = "random_walk"
    /\ UNCHANGED <<config, caller, dir, maze, logo, unvisited, visited, ci,
                   breakVars, resolveVars>>

(***************************************************************************)
(* random_walk, lines 352-377: one iteration of the while loop.            *)
(***************************************************************************)
RECURSIVE NeighborsFrom(_, _)
NeighborsFrom(pos, k) ==
    IF k > Len(dir) THEN <<>>
    ELSE LET n == Step(pos, dir[k])
         IN  (IF check_bounds(n) /\ n \notin logo
              THEN <<<<dir[k], n>>>>
              ELSE <<>>) \o NeighborsFrom(pos, k + 1)

Neighbors(pos) == NeighborsFrom(pos, 1)

\* a slip of the loop erasure: only the reserved cells are tested
RevisitsLogoOnly(pth, point) == point \in logo

\* line 368: the walk steps on a cell of its own path
Revisits(pth, point) == point \in SeqToSet(pth) \/ point \in logo

WalkStep ==
    /\ pc = "random_walk"
    /\ LET neighbors == Neighbors(start)
       IN  IF neighbors = <<>>
           THEN /\ pc' = "mark"
                /\ UNCHANGED <<start, w_path, walls, rng>>
           ELSE \E i \in Draw(rng, Len(neighbors)) :
                   LET path_enum == neighbors[i + 1][1]
                       random_point == neighbors[i + 1][2]
                   IN  /\ rng' = NextRng(rng)
                       /\ IF Revisits(w_path, random_point)
                          THEN LET index == IndexOf(w_path, random_point)
                               IN  /\ w_path' = SubSeq(w_path, 1, index)
                                   /\ walls' = SubSeq(walls, 1, index - 1)
                                   /\ start' = w_path[index]
                                   /\ pc' = "random_walk"
                          ELSE /\ walls' = Append(walls, path_enum)
                               /\ w_path' = Append(w_path, random_point)
                               /\ start' = random_point
                               /\ pc' = IF random_point \in visited
                                        THEN "mark" ELSE "random_walk"
    /\ UNCHANGED <<config, caller, dir, maze, logo, unvisited, visited, ci,
                   breakVars, resolveVars>>

\* wilson, lines 314-317: the cells of the walk join visited.  (Here and
\* below, the locals of a loop iteration that has ended are reset: the next
\* iteration assigns them before reading them.)
\* a slip of the marking: only the cell the walk ended on is marked
MarkedLast(pth, unv) == {pth[Len(pth)]} \cap unv

\* lines 314-317: the cells of the walk that leave unvisited for visited
Marked(pth, unv) == SeqToSet(pth) \cap unv

WilsonMark ==
    /\ pc = "mark"
    /\ visited' = visited \cup Marked(w_path, unvisited)
    /\ unvisited' = unvisited \ Marked(w_path, unvisited)
    /\ ci' = 0
    /\ IF Len(walls) = 0
       THEN /\ pc' = "wilson"
            /\ start' = NoCell /\ w_path' = <<>> /\ walls' = <<>>
       ELSE /\ pc' = "carve"
            /\ UNCHANGED <<start, w_path, walls>>
    /\ UNCHANGED <<config, caller, dir, maze, logo, rng, breakVars, resolveVars>>

\* wilson, lines 319-325: one iteration of the carving loop
CarveStep ==
    /\ pc = "carve"
    /\ ci < Len(walls)
    /\ maze' = ToggleWall(maze, w_path[ci + 1], w_path[ci + 2], BitOf(walls[ci + 1]))
    /\ IF ci + 1 = Len(walls)
       THEN /\ pc' = "wilson"
            /\ ci' = 0 /\ start' = NoCell /\ w_path' = <<>> /\ walls' = <<>>
       ELSE /\ pc' = "carve"
            /\ ci' = ci + 1
            /\ UNCHANGED <<start, w_path, walls>>
    /\ UNCHANGED <<config, caller, dir, logo, rng, unvisited, visited, breakVars, resolveVars>>

\* a slip of generate_maze: the test of self.perfect is forgotten
AfterWilsonAlways(perf) == "break_wall"

\* generate_maze, lines 205-206: what follows the carving
AfterWilson(perf) == IF ~perf THEN "break_wall" ELSE "generated"

\* wilson returns
WilsonDone ==
    /\ pc = "wilson"
    /\ unvisited = {}
    /\ pc' = AfterWilson(perfect)
    /\ UNCHANGED <<config, caller, dir, maze, logo, rng, wilsonVars, breakVars, resolveVars>>

(***************************************************************************)
(* break_wall, lines 248-260: the early return and the candidate list.     *)
(***************************************************************************)
Max(a, b) == IF a >= b THEN a ELSE b

\* a slip of the target: the minimum of one wall is forgotten
WallToBreakFloor(h, w) == (h * w) \div BreakPercent

\* line 251: the number of walls to break
WallToBreak(h, w) == Max((h * w) \div BreakPercent, 1)

\* a slip of the early return: only the height is tested
BreakSkipsRows(h, w) == h = 1

\* lines 248-249: the early return
BreakSkips(h, w) == w = 1 \/ h = 1

BreakInit ==
    /\ pc = "break_wall"
    /\ IF BreakSkips(height, width)
       THEN /\ pc' = "generated"
            /\ UNCHANGED <<wall_to_break, wall_break, bw_path>>
       ELSE /\ wall_to_break' = WallToBreak(height, width)
            /\ wall_break' = 0
            /\ bw_path' = RowMajor({n \in DOMAIN maze : ~(n \in logo \/ maze[n] = 0)})
            /\ pc' = "break_loop"
    /\ UNCHANGED <<config, caller, dir, maze, logo, rng, wilsonVars, p, dir_cpy, tries,
                   resolveVars>>

\* break_wall, lines 262-268: the loop test and the choice of p;
\* random.choice of an empty list raises IndexError
\* a slip of the loop test: one wall too many
BreakDoneLate(wb, wtb) == wb > wtb

\* lines 263-264: the loop test
BreakDone(wb, wtb) == wb = wtb

BreakPick ==
    /\ pc = "break_loop"
    /\ IF BreakDone(wall_break, wall_to_break)
       THEN /\ pc' = "generated"
            /\ bw_path' = <<>>
            /\ UNCHANGED <<p, dir_cpy, tries, rng>>
       ELSE IF bw_path = <<>>
       THEN /\ pc' = "crashed"
            /\ UNCHANGED <<p, dir_cpy, tries, rng, bw_path>>
       ELSE /\ \E i \in Draw(rng, Len(bw_path)) : p' = bw_path[i + 1]
            /\ rng' = NextRng(rng)
            /\ dir_cpy' = dir
            /\ tries' = 0
            /\ pc' = "break_try"
            /\ UNCHANGED bw_path
    /\ UNCHANGED <<config, caller, dir, maze, logo, wilsonVars, wall_to_break, wall_break,
                   resolveVars>>

\* break_wall, lines 270-286: one iteration of the for loop; leaving the
\* loop (by break or after the fourth iteration) removes p from the list
\* a slip of break_wall: the bounds test is forgotten
BreakableNoBounds(m, pos, k) ==
    /\ Step(pos, k) \notin logo
    /\ check_walls(m, pos, k)

\* a slip of break_wall: the reserved cells are not skipped
BreakableIntoLogo(m, pos, k) ==
    /\ check_bounds(Step(pos, k))
    /\ check_walls(m, pos, k)

\* a slip of break_wall: the wall is not tested, an open one is toggled
BreakableOpen(m, pos, k) ==
    /\ Step(pos, k) \notin logo
    /\ check_bounds(Step(pos, k))

\* lines 275-279: the wall of pos in direction k is one to break
Breakable(m, pos, k) ==
    /\ Step(pos, k) \notin logo
    /\ check_bounds(Step(pos, k))
    /\ check_walls(m, pos, k)

\* a slip of the copy: dir_cpy is self.dir itself, the pop empties the table
DirAfterPopShared(table, k) == Remove(table, k)

\* lines 266-267 and 273: dir_cpy is a new dict, so popping k from it leaves
\* self.dir as it is
DirAfterPop(table, k) == table

BreakTry ==
    /\ pc = "break_try"
    /\ \E i \in Draw(rng, Len(dir_cpy)) :
          LET k == dir_cpy[i + 1]
              n_p == Step(p, k)
              broken == Breakable(maze, p, k)
          IN  /\ dir' = DirAfterPop(dir, k)
              /\ IF broken
                 THEN /\ maze' = ToggleWall(maze, p, n_p, BitOf(k))
                      /\ wall_break' = wall_break + 1
                 ELSE UNCHANGED <<maze, wall_break>>
              /\ IF broken \/ tries + 1 = 4
                 THEN /\ bw_path' = Remove(bw_path, p)
                      /\ p' = NoCell /\ dir_cpy' = <<>> /\ tries' = 0
                      /\ pc' = "break_loop"
                 ELSE /\ bw_path' = bw_path
                      /\ dir_cpy' = Remove(dir_cpy, k)
                      /\ tries' = tries + 1
                      /\ p' = p
                      /\ pc' = "break_try"
    /\ rng' = NextRng(rng)
    /\ UNCHANGED <<config, caller, logo, wilsonVars, wall_to_break, resolveVars>>

(***************************************************************************)
(* get_general_path, lines 534-567.                                        *)
(***************************************************************************)
\* a slip of the lookup: the key is never found
PathGetMissing(d, k) == None

\* dict.get: None for a missing key
PathGet(d, k) == IF k \in DOMAIN d THEN d[k] ELSE None

\* resolve_maze calls get_general_path; lines 534-541: the queue and the
\* map of None with the entry at 0
ResolveStart ==
    /\ pc = "generated"
    /\ q_front' = <<entry_point>>
    /\ q_back' = <<>>
    /\ dist' = (entry_point :> 0) @@ [c \in AllCells |-> None]
    /\ pc' = "get_general_path"
    /\ UNCHANGED <<config, caller, dir, maze, logo, rng, wilsonVars, breakVars,
                   path_str, path, found, stack, ret>>

\* a slip of the search: the wall test of line 554 is forgotten
RECURSIVE BfsDirsNoWalls(_, _, _, _, _)
BfsDirsNoWalls(m, start_, start_dist, k, st) ==
    IF k > Len(dir) THEN st
    ELSE LET key == dir[k]
             n_point == Step(start_, key)
         IN  IF ~check_bounds(n_point)
             THEN BfsDirsNoWalls(m, start_, start_dist, k + 1, st)
             ELSE LET neigh_dist == PathGet(st.path, n_point)
                  IN  IF neigh_dist = None \/ neigh_dist > start_dist + 1
                      THEN BfsDirsNoWalls(m, start_, start_dist, k + 1,
                                   [path |-> [st.path EXCEPT ![n_point] = start_dist + 1],
                                    q_back |-> Append(st.q_back, n_point)])
                      ELSE BfsDirsNoWalls(m, start_, start_dist, k + 1, st)

\* lines 550-561: the for loop over the directions from index k on;
\* st = [path, q_back]
RECURSIVE BfsDirs(_, _, _, _, _)
BfsDirs(m, start_, start_dist, k, st) ==
    IF k > Len(dir) THEN st
    ELSE LET key == dir[k]
             n_point == Step(start_, key)
         IN  IF ~(check_bounds(n_point) /\ ~check_walls(m, start_, key))
             THEN BfsDirs(m, start_, start_dist, k + 1, st)
             ELSE LET neigh_dist == PathGet(st.path, n_point)
                  IN  IF neigh_dist = None \/ neigh_dist > start_dist + 1
                      THEN BfsDirs(m, start_, start_dist, k + 1,
                                   [path |-> [st.path EXCEPT ![n_point] = start_dist + 1],
                                    q_back |-> Append(st.q_back, n_point)])
                      ELSE BfsDirs(m, start_, start_dist, k + 1, st)

\* a slip of the queue: the cells left in q_back are dropped
QueueShiftDrop(qf, qb) ==
    IF qb # <<>>
    THEN [q_front |-> Tail(Append(qf, qb[1])), q_back |-> <<>>]
    ELSE [q_front |-> Tail(qf), q_back |-> qb]

\* lines 563-565: the head of q_back moves to q_front, the head of q_front
\* is popped
QueueShift(qf, qb) ==
    IF qb # <<>>
    THEN [q_front |-> Tail(Append(qf, qb[1])), q_back |-> Tail(qb)]
    ELSE [q_front |-> Tail(qf), q_back |-> qb]

\* lines 543-567: one iteration of the while loop; when q_front is empty the
\* map is returned and resolve_maze calls find_quickest_path on the entry
BfsStep ==
    /\ pc = "get_general_path"
    /\ IF q_front = <<>>
       THEN /\ pc' = "find_quickest_path"
            /\ stack' = <<[pos |-> entry_point, k |-> 1]>>
            /\ ret' = <<>>
            /\ UNCHANGED <<q_front, q_back, dist>>
       ELSE /\ LET start_ == q_front[1]
                   start_dist == PathGet(dist, start_)
               IN  IF start_dist = None
                   THEN /\ q_front' = Tail(q_front)
                        /\ UNCHANGED <<q_back, dist>>
                   ELSE LET st == BfsDirs(maze, start_, start_dist, 1,
                                          [path |-> dist, q_back |-> q_back])
                            q == QueueShift(q_front, st.q_back)
                        IN  /\ dist' = st.path
                            /\ q_front' = q.q_front
                            /\ q_back' = q.q_back
            /\ pc' = "get_general_path"
            /\ UNCHANGED <<stack, ret>>
    /\ UNCHANGED <<config, caller, dir, maze, logo, rng, wilsonVars, breakVars,
                   path_str, path, found>>

(***************************************************************************)
(* find_quickest_path, lines 492-518.  stack holds the active calls, the   *)
(* innermost last: pos is the argument of the call, k the index of the     *)
(* direction its for loop is at.  ret holds the pair returned by a call    *)
(* that has just ended.                                                    *)
(***************************************************************************)
\* a slip of the reconstruction: the wall test is forgotten
QualifiesNoWall(m, d, pos, key, current_dist) ==
    /\ check_bounds(Step(pos, key))
    /\ PathGet(d, Step(pos, key)) # None
    /\ PathGet(d, Step(pos, key)) = current_dist + 1

\* lines 503-508: the neighbour in direction key continues a shortest route
Qualifies(m, d, pos, key, current_dist) ==
    /\ ~check_walls(m, pos, key)
    /\ check_bounds(Step(pos, key))
    /\ PathGet(d, Step(pos, key)) # None
    /\ PathGet(d, Step(pos, key)) = current_dist + 1

\* lines 499-508: the first direction from index k on whose neighbour
\* qualifies, Len(dir) + 1 if there is none
RECURSIVE FirstQualifying(_, _, _, _, _)
FirstQualifying(m, d, pos, current_dist, k) ==
    IF k > Len(dir) THEN k
    ELSE IF Qualifies(m, d, pos, dir[k], current_dist) THEN k
    ELSE FirstQualifying(m, d, pos, current_dist, k + 1)

Pop(st) == SubSeq(st, 1, Len(st) - 1)

\* the innermost call runs (from direction index k) up to its next call or
\* to its return
FqpRun(k) ==
    LET pos == stack[Len(stack)].pos
        current_dist == PathGet(dist, pos)
    IN  IF pos = exit_point
        THEN /\ stack' = Pop(stack)
             /\ ret' = <<[str |-> <<>>, found |-> TRUE]>>
        ELSE IF current_dist = None
        THEN /\ stack' = Pop(stack)
             /\ ret' = <<[str |-> <<>>, found |-> FALSE]>>
        ELSE LET j == FirstQualifying(maze, dist, pos, current_dist, k)
             IN  IF j > Len(dir)
                 THEN /\ stack' = Pop(stack)
                      /\ ret' = <<[str |-> <<>>, found |-> FALSE]>>
                 ELSE IF Step(pos, dir[j]) = exit_point
                 THEN /\ stack' = Pop(stack)
                      /\ ret' = <<[str |-> <<dir[j]>>, found |-> TRUE]>>
                 ELSE /\ stack' = Append([stack EXCEPT ![Len(stack)].k = j],
                                         [pos |-> Step(pos, dir[j]), k |-> 1])
                      /\ ret' = <<>>

\* one step of the recursion: a call starts, or the call made at line 513
\* has returned (lines 514-516) and the caller goes on
FqpStep ==
    /\ pc = "find_quickest_path"
    /\ stack # <<>>
    /\ IF ret = <<>>
       THEN /\ FqpRun(stack[Len(stack)].k)
            /\ UNCHANGED path
       ELSE LET top == stack[Len(stack)]
                key == dir[top.k]
            IN  IF ret[1].found
                THEN /\ path' = Append(path, Step(top.pos, key))
                     /\ stack' = Pop(stack)
                     /\ ret' = <<[str |-> <<key>> \o ret[1].str, found |-> TRUE]>>
                ELSE /\ FqpRun(top.k + 1)
                     /\ UNCHANGED path
    /\ UNCHANGED <<config, caller, dir, maze, logo, pc, rng, wilsonVars, breakVars,
                   path_str, dist, found, q_front, q_back>>

(***************************************************************************)
(* resolve_maze, lines 462-466: the outermost call has returned.           *)
(***************************************************************************)
\* a slip of resolve_maze: the walls of the entry are cleared to mark it
ResolveEndMarking ==
    /\ pc = "find_quickest_path"
    /\ stack = <<>>
    /\ path_str' = ret[1].str
    /\ found' = ret[1].found
    /\ path' = path \o <<entry_point, exit_point>>
    /\ ret' = <<>>
    /\ q_front' = <<>> /\ q_back' = <<>>
    /\ maze' = [maze EXCEPT ![entry_point] = 0]
    /\ pc' = "resolved"
    /\ UNCHANGED <<config, caller, dir, logo, rng, wilsonVars, breakVars, dist, stack>>

ResolveEnd ==
    /\ pc = "find_quickest_path"
    /\ stack = <<>>
    /\ path_str' = ret[1].str
    /\ found' = ret[1].found
    /\ path' = path \o <<entry_point, exit_point>>
    /\ ret' = <<>>
    /\ q_front' = <<>> /\ q_back' = <<>>
    /\ pc' = "resolved"
    /\ UNCHANGED <<config, caller, dir, maze, logo, rng, wilsonVars, breakVars, dist, stack>>

Next ==
    \/ GridInit
    \/ Place42
    \/ WilsonInit
    \/ WilsonPick
    \/ WalkStep
    \/ WilsonMark
    \/ CarveStep
    \/ WilsonDone
    \/ BreakInit
    \/ BreakPick
    \/ BreakTry
    \/ ResolveStart
    \/ BfsStep
    \/ FqpStep
    \/ ResolveEnd

Spec == Init /\ [][Next]_vars

(***************************************************************************)
(* Fair random choices.  random.choice gives every neighbour of the cell   *)
(* of the walk a probability of at least 1/4, so a walk that is again and  *)
(* again at k steps from the visited cells again and again steps closer:   *)
(* strong fairness of the closer step, for every k.  (The seeded streams,  *)
(* rng > 0, are determined and need no such assumption.)  Every other step *)
(* is taken as soon as it can be: weak fairness.                           *)
(***************************************************************************)
\* the cells within k steps of the visited cells, walking as random_walk
\* does: in bounds and off the emblem
RECURSIVE Near(_)
Near(k) ==
    IF k = 0 THEN visited
    ELSE LET prev == Near(k - 1)
         IN  prev \cup {c \in AllCells \ logo : \E d \in {"N", "E", "S", "W"} : Step(c, d) \in prev}

\* c is exactly k steps from the nearest visited cell
Rank(c, k) == c \in Near(k) /\ (k = 0 \/ c \notin Near(k - 1))

\* a step of the walk from k steps away to a cell closer to the visited cells
StepCloser(k) ==
    /\ rng = 0
    /\ pc = "random_walk"
    /\ Rank(start, k)
    /\ WalkStep
    /\ start' \in Near(k - 1)

\* generate_maze up to the return of wilson
NextCarve ==
    \/ GridInit
    \/ Place42
    \/ WilsonInit
    \/ WilsonPick
    \/ WalkStep
    \/ WilsonMark
    \/ CarveStep
    \/ WilsonDone

Fairness ==
    /\ WF_vars(NextCarve)
    /\ \A k \in 1 .. MaxH + MaxW - 2 : SF_vars(StepCloser(k))

\* wilson and the steps before it never read self.perfect (its only reader,
\* line 205, comes after wilson has returned): one value of it is followed
InitCarve == Init /\ perfect

FairSpec == InitCarve /\ [][NextCarve]_vars /\ Fairness

(***************************************************************************)
(* The interface generates again on the same MazeGenerator.  The locals of *)
(* the methods that have returned are reset.                               *)
(***************************************************************************)
\* MazeRepresentation.get_key of src/main.py, key 49: generate_maze and
\* resolve_maze are called again
GetKey ==
    /\ pc = "resolved"
    /\ rounds < MaxRounds
    /\ rounds' = rounds + 1
    /\ pc' = "constructed"
    /\ wall_to_break' = 0 /\ wall_break' = 0
    /\ dist' = <<>> /\ found' = FALSE
    /\ UNCHANGED <<config, called, saved, dir, maze, logo, rng, wilsonVars, bw_path, p, dir_cpy, tries,
                   path_str, path, q_front, q_back, stack, ret>>

\* MazeRepresentation.new_maze of src/src/print_maze.py: self.maze_gen.path
\* is emptied, then generate_maze and resolve_maze are called again
NewMaze ==
    /\ pc = "resolved"
    /\ rounds < MaxRounds
    /\ rounds' = rounds + 1
    /\ path' = <<>>
    /\ pc' = "constructed"
    /\ wall_to_break' = 0 /\ wall_break' = 0
    /\ dist' = <<>> /\ found' = FALSE
    /\ UNCHANGED <<config, called, saved, dir, maze, logo, rng, wilsonVars, bw_path, p, dir_cpy, tries,
                   path_str, q_front, q_back, stack, ret>>

NextRegen ==
    \/ Next
    \/ GetKey
    \/ NewMaze

SpecRegen == Init /\ [][NextRegen]_vars

(***************************************************************************)
(* MazeGenerator used without the validator: __init__ and from_dict store  *)
(* whatever dimensions and points they are given.                          *)
(***************************************************************************)
RawPoints == (0 .. MaxH) \X (0 .. MaxW)

InitRaw ==
    /\ height \in 0 .. MaxH
    /\ width \in 0 .. MaxW
    /\ height * width <= MaxCells
    /\ entry_point \in RawPoints
    /\ exit_point \in RawPoints
    /\ perfect \in BOOLEAN
    /\ output_file = "maze.txt"
    /\ rng = 0
    /\ Constructed

SpecRaw == InitRaw /\ [][Next]_vars

(***************************************************************************)
(* A caller reads a wall of the resolved grid with check_walls, at any     *)
(* point.  Line 449 indexes the list of rows and then the row with the     *)
(* coordinates as they come: a Python list of length n takes the indices   *)
(* -n .. n - 1, a negative index i standing for n + i, and raises          *)
(* IndexError for any other.                                               *)
(***************************************************************************)
PyInRange(n, i) == -n <= i /\ i < n

PyIndex(n, i) == IF i < 0 THEN n + i ELSE i

\* what check_walls returns on any point: the bit of the cell the indices
\* stand for, or the IndexError of the list
check_walls_call(m, point, d) ==
    IF PyInRange(height, point[1]) /\ PyInRange(width, point[2])
    THEN IF check_walls(m, <<PyIndex(height, point[1]), PyIndex(width, point[2])>>, d)
         THEN "True" ELSE "False"
    ELSE "IndexError"

\* the points a caller asks about: in the grid, and up to one row or column
\* past what a list takes on either side
ProbePoints == (-height - 1 .. height) \X (-width - 1 .. width)

CheckWalls ==
    /\ pc = "resolved"
    /\ called = <<>>
    /\ \E point \in ProbePoints, d \in SeqToSet(DirOrder) :
          called' = <<[point |-> point, dir |-> d,
                       ret |-> check_walls_call(maze, point, d)]>>
    /\ UNCHANGED <<config, rounds, saved, dir, maze, logo, pc, rng, wilsonVars, breakVars,
                   resolveVars>>

NextProbe ==
    \/ Next
    \/ CheckWalls

SpecProbe == Init /\ [][NextProbe]_vars

(***************************************************************************)
(* ParsingValidator of src/src/parsing_validator.py.  pydantic validates   *)
(* the fields in the order of their declaration, and each field by its     *)
(* validators in the order of their definition; a validator that raises    *)
(* ends the validation of its field, and the field is then missing from    *)
(* values.data, which holds the fields validated so far.  valid is the set *)
(* of the names in values.data.  The construction raises ValidationError   *)
(* if any field has failed.                                                *)
(***************************************************************************)
\* lines 77-79
check_positive(v) == ~(v <= 0)

\* a slip of the limit: the maximum itself is refused
check_dimensions_strict(v) == ~(v >= MAX_DIMENSION)

\* lines 210-214
check_dimensions(v) == ~(v > MAX_DIMENSION)

\* lines 102-104
check_non_negative_coordinates(v) == ~(v[1] < 0 \/ v[2] < 0)

\* lines 131-135: a tuple of two integers is true whatever they are, so
\* "entry_point and" tests that the entry is in values.data
check_different_points(v, valid, en) == ~("entry_point" \in valid /\ v = en)

\* lines 160-167
check_within_bounds(v, valid, w, h) ==
    IF "width" \notin valid \/ "height" \notin valid THEN TRUE
    ELSE ~(v[2] >= w \/ v[1] >= h)

\* lines 190-192
check_output_file(v) == ~(v = "")

\* the set of the names e of the fields with ok[e]
Validates(ok) == {name \in DOMAIN ok : ok[name]}

\* the construction succeeds; perfect is a bool already, which check_perfect
\* (line 55) passes
ParsingValidator(w, h, en, ex, of) ==
    LET width_ok == check_positive(w) /\ check_dimensions(w)
        height_ok == check_positive(h) /\ check_dimensions(h)
        valid2 == Validates([width |-> width_ok, height |-> height_ok])
        entry_ok == /\ check_non_negative_coordinates(en)
                    /\ check_within_bounds(en, valid2, w, h)
        valid3 == valid2 \cup Validates([entry_point |-> entry_ok])
        exit_ok == /\ check_non_negative_coordinates(ex)
                   /\ check_different_points(ex, valid3, en)
                   /\ check_within_bounds(ex, valid3, w, h)
    IN  width_ok /\ height_ok /\ entry_ok /\ exit_ok /\ check_output_file(of)

\* the values given to the validator: dimensions around 0, around the grids
\* tried and around the maximum; points in and around those grids
DimInputs == (-1 .. MaxW + 1) \cup {MAX_DIMENSION, MAX_DIMENSION + 1}

PointInputs == (-1 .. MaxH + 1) \X (-1 .. MaxW + 1)

InitParsed ==
    /\ width \in DimInputs
    /\ height \in DimInputs
    /\ entry_point \in PointInputs
    /\ exit_point \in PointInputs
    /\ perfect \in BOOLEAN
    /\ output_file \in {"", "maze.txt"}
    /\ rng = 0
    /\ pc = "parsed"
    /\ Unassigned

Validate ==
    /\ pc = "parsed"
    /\ pc' = IF ParsingValidator(width, height, entry_point, exit_point, output_file)
             THEN "accepted"
             ELSE "ValidationError"
    /\ UNCHANGED <<config, caller, dir, maze, logo, rng, wilsonVars, breakVars, resolveVars>>

SpecValidate == InitParsed /\ [][Validate]_vars

(***************************************************************************)
(* The top-level pipeline: transform_data of src/parsing.py validates with *)
(* the ParsingValidator of src/parsing_validator.py, and the               *)
(* MazeGenerator of src/maze_generator.py reads the points as (row, col).  *)
(* That validator has check_positive, check_non_negative_coordinates,      *)
(* check_different_points and check_output_file as above, no               *)
(* check_dimensions, and a check_within_bounds of its own.  The values     *)
(* drawn are those transform_data has converted (lines 49-54): int of the  *)
(* two parts of "a,b", in that order, and int of WIDTH and HEIGHT.         *)
(***************************************************************************)
\* src/parsing_validator.py, lines 94-100
top_check_within_bounds(v, valid, w, h) ==
    IF "width" \notin valid \/ "height" \notin valid THEN TRUE
    ELSE ~(v[1] >= w \/ v[2] >= h)

top_ParsingValidator(w, h, en, ex, of) ==
    LET width_ok == check_positive(w)
        height_ok == check_positive(h)
        valid2 == Validates([width |-> width_ok, height |-> height_ok])
        entry_ok == /\ check_non_negative_coordinates(en)
                    /\ top_check_within_bounds(en, valid2, w, h)
        valid3 == valid2 \cup Validates([entry_point |-> entry_ok])
        exit_ok == /\ check_non_negative_coordinates(ex)
                   /\ check_different_points(ex, valid3, en)
                   /\ top_check_within_bounds(ex, valid3, w, h)
    IN  width_ok /\ height_ok /\ entry_ok /\ exit_ok /\ check_output_file(of)

\* src/maze_generator.py, lines 145-148
top_check_bounds(point) ==
    /\ 0 <= point[1] /\ point[1] < height
    /\ 0 <= point[2] /\ point[2] < width

\* src/parsing.py, lines 56-66: any exception of the validator is raised
\* again as ValueError
transform_data ==
    /\ pc = "parsed"
    /\ pc' = IF top_ParsingValidator(width, height, entry_point, exit_point, output_file)
             THEN "accepted"
             ELSE "ValueError"
    /\ UNCHANGED <<config, caller, dir, maze, logo, rng, wilsonVars, breakVars, resolveVars>>

SpecTop == InitParsed /\ [][transform_data]_vars

(***************************************************************************)
(* A caller resolves the same grid again: it keeps what resolve_maze       *)
(* stored, then calls resolve_maze a second time without generate_maze in  *)
(* between.  Nothing in resolve_maze (lines 459-466) empties self.path.    *)
(***************************************************************************)
ResolveAgain ==
    /\ pc = "resolved"
    /\ rounds < MaxRounds
    /\ rounds' = rounds + 1
    /\ saved' = <<[path_str |-> path_str, path |-> path]>>
    /\ dist' = <<>> /\ found' = FALSE
    /\ pc' = "generated"
    /\ UNCHANGED <<config, called, dir, maze, logo, rng, wilsonVars, breakVars,
                   path_str, path, q_front, q_back, stack, ret>>

NextAgain ==
    \/ Next
    \/ ResolveAgain

SpecAgain == Init /\ [][NextAgain]_vars

(***************************************************************************)
(* Definitions used by the properties.                                     *)
(***************************************************************************)
Dirs == {"N", "E", "S", "W"}

Opposite(d) == CASE d = "N" -> "S" [] d = "S" -> "N" [] d = "E" -> "W" [] d = "W" -> "E"

NonReserved == AllCells \ logo

GridExists == pc # "constructed"

Generated == pc \in {"generated", "resolved"}

\* carving is over: loop breaking, or generate_maze has returned
Carved == pc \in {"break_wall", "break_loop", "break_try", "generated", "resolved"}

\* the passages: pairs of adjacent non-reserved cells whose shared wall bits
\* are both cleared (each pair is named by its western or northern cell)
Passages ==
    {e \in NonReserved \X {"E", "S"} :
        /\ Step(e[1], e[2]) \in NonReserved
        /\ ~check_walls(maze, e[1], e[2])
        /\ ~check_walls(maze, Step(e[1], e[2]), Opposite(e[2]))}

\* d is the map of the shortest distances from the entry over the open walls
\* (a wall is open for a move when its bit is clear in the mask of the cell
\* the move leaves): only the entry is at 0, a cell that no cell with a
\* distance leads to has None, and any other cell is one step further than
\* the nearest cell that leads to it
LeadsTo(c) ==
    {a \in AllCells : \E dr \in Dirs : Step(a, dr) = c /\ ~check_walls(maze, a, dr)}

IsShortestDistances(d) ==
    /\ DOMAIN d = AllCells
    /\ d[entry_point] = 0
    /\ \A c \in AllCells \ {entry_point} :
          LET from == {d[a] : a \in {b \in LeadsTo(c) : d[b] # None}}
          IN  IF from = {}
              THEN d[c] = None
              ELSE /\ d[c] # None
                   /\ d[c] - 1 \in from
                   /\ \A x \in from : d[c] - 1 <= x

\* the number of moves mv among the first n moves of s
Count(s, n, mv) == Cardinality({i \in 1 .. n : s[i] = mv})

\* the cell reached from pos by the first n moves of s
After(pos, s, n) ==
    <<pos[1] + Count(s, n, "S") - Count(s, n, "N"),
      pos[2] + Count(s, n, "E") - Count(s, n, "W")>>

\* the cells visited by replaying the moves s from pos, pos included
Replay(pos, s) == [i \in 1 .. Len(s) + 1 |-> After(pos, s, i - 1)]

\* every move of s from pos leaves through an open wall into a cell of the grid
MovesOpen(pos, s) ==
    \A i \in 1 .. Len(s) :
        /\ After(pos, s, i - 1) \in AllCells
        /\ ~check_walls(maze, After(pos, s, i - 1), s[i])
        /\ check_bounds(After(pos, s, i))

Last(s) == s[Len(s)]

\* the emblem would be placed on the entry or on the exit
EmblemCovered ==
    /\ width >= LogoMinW /\ height >= LogoMinH
    /\ (entry_point \in Pattern42(height, width) \/ exit_point \in Pattern42(height, width))

(***************************************************************************)
(* C1: with perfect = true, once generate_maze has finished, every         *)
(* non-reserved cell has a finite distance in the map returned by          *)
(* get_general_path.                                                       *)
(***************************************************************************)
C1_PerfectConnected ==
    (pc = "resolved" /\ perfect) => \A c \in NonReserved : dist[c] # None

C1_Witness ==
    /\ pc = "resolved" /\ perfect /\ logo # {}
    /\ \A c \in NonReserved : dist[c] # None
    /\ \E c \in NonReserved : dist[c] > width + height

(***************************************************************************)
(* C2: after carving a perfect maze the number of open passages equals     *)
(* the number of non-reserved cells minus one.                             *)
(***************************************************************************)
C2_TreeEdgeCount ==
    (Generated /\ perfect) => Cardinality(Passages) = Cardinality(NonReserved) - 1

C2_Witness ==
    /\ pc = "generated" /\ perfect /\ logo # {}
    /\ Cardinality(Passages) = Cardinality(NonReserved) - 1

(***************************************************************************)
(* C3: mirrored walls.  In every state from the grid initialisation on,    *)
(* for all adjacent non-reserved cells A and B, the wall bit of A toward B *)
(* is set iff the opposite wall bit of B is set.                           *)
(***************************************************************************)
C3_MirroredWalls ==
    GridExists =>
        \A a \in NonReserved, d \in {"E", "S"} :
            Step(a, d) \in NonReserved =>
                (check_walls(maze, a, d) <=> check_walls(maze, Step(a, d), Opposite(d)))

C3_Witness ==
    /\ pc = "break_loop" /\ wall_break >= 1
    /\ \E a \in NonReserved, d \in Dirs :
          Step(a, d) \in NonReserved /\ ~check_walls(maze, a, d)

(***************************************************************************)
(* C4: border invariant.  From the grid initialisation on, every cell of   *)
(* row 0 has its North bit set, every cell of the last row its South bit,  *)
(* every cell of column 0 its West bit, every cell of the last column its  *)
(* East bit.                                                               *)
(***************************************************************************)
C4_Border ==
    GridExists =>
        \A c \in AllCells :
            /\ c[1] = 0 => check_walls(maze, c, "N")
            /\ c[1] = height - 1 => check_walls(maze, c, "S")
            /\ c[2] = 0 => check_walls(maze, c, "W")
            /\ c[2] = width - 1 => check_walls(maze, c, "E")

C4_Witness ==
    /\ pc = "generated" /\ ~perfect /\ wall_break >= 1
    /\ \E c \in AllCells : maze[c] # FullMask

(***************************************************************************)
(* C5: after resolve_maze, replaying the moves of path_str from the entry  *)
(* yields exactly the stored cell list path, and its last cell is the      *)
(* exit.                                                                   *)
(***************************************************************************)
C5_PathReplay ==
    pc = "resolved" =>
        /\ path = Replay(entry_point, path_str)
        /\ Last(path) = exit_point

(***************************************************************************)
(* C6: when the exit is reachable, the direction string of resolve_maze    *)
(* has the length of the shortest distance of the exit, every move of it   *)
(* crosses an open wall into a cell of the grid, and it ends on the exit.  *)
(***************************************************************************)
C6_ShortestRoute ==
    (pc = "resolved" /\ dist[exit_point] # None) =>
        /\ IsShortestDistances(dist)
        /\ Len(path_str) = dist[exit_point]
        /\ MovesOpen(entry_point, path_str)
        /\ Last(Replay(entry_point, path_str)) = exit_point

C6_Witness ==
    /\ pc = "resolved" /\ ~perfect /\ wall_break >= 1
    /\ Len(path_str) >= 3
    /\ Last(Replay(entry_point, path_str)) = exit_point

(***************************************************************************)
(* C7: get_general_path maps the entry to 0, every reachable cell to its   *)
(* shortest distance over the open walls and every unreachable cell to     *)
(* None.                                                                   *)
(***************************************************************************)
C7_BfsDistances ==
    pc = "resolved" =>
        /\ dist[entry_point] = 0
        /\ IsShortestDistances(dist)

C7_Witness ==
    /\ pc = "resolved" /\ ~perfect /\ wall_break >= 1
    /\ \E c \in AllCells : dist[c] = None
    /\ \E c \in AllCells : dist[c] >= 4
    /\ IsShortestDistances(dist)

(***************************************************************************)
(* C8: after carving and after loop breaking every reserved cell has       *)
(* wall-mask 15 and no non-reserved neighbour has its wall toward a        *)
(* reserved cell cleared.                                                  *)
(***************************************************************************)
C8_ReservedWalled ==
    Carved =>
        \A c \in logo :
            /\ maze[c] = FullMask
            /\ \A d \in Dirs :
                  Step(c, d) \in NonReserved =>
                      check_walls(maze, Step(c, d), Opposite(d))

C8_Witness ==
    /\ pc = "generated" /\ ~perfect /\ wall_break >= 1
    /\ logo # {}
    /\ \A c \in logo : maze[c] = FullMask

(***************************************************************************)
(* C9: after place_42 neither the entry nor the exit is reserved; when the *)
(* emblem would cover the entry or the exit the reserved set is empty, no  *)
(* exception is raised and carving covers every cell of the grid.          *)
(***************************************************************************)
C9_EntryExitNotReserved ==
    pc \notin {"constructed", "place_42"} =>
        /\ entry_point \notin logo
        /\ exit_point \notin logo
        /\ EmblemCovered =>
              /\ logo = {}
              /\ pc # "crashed"
              /\ pc # "wilson_init" => visited \cup unvisited = AllCells
              /\ Generated => \A c \in AllCells : maze[c] # FullMask

C9_Witness ==
    /\ pc = "generated" /\ EmblemCovered /\ logo = {}
    /\ \A c \in Pattern42(height, width) : maze[c] # FullMask

(***************************************************************************)
(* C10: after generate_maze the reserved set is non-empty iff              *)
(* width >= 9 and height >= 7 and neither the entry nor the exit lies on   *)
(* the emblem; on a smaller grid the reserved set is empty and generation  *)
(* does not fail.                                                          *)
(***************************************************************************)
C10_ReservedIff ==
    /\ Generated =>
          (logo # {} <=>
              /\ width >= LogoMinW /\ height >= LogoMinH
              /\ entry_point \notin Pattern42(height, width)
              /\ exit_point \notin Pattern42(height, width))
    /\ (width < LogoMinW \/ height < LogoMinH) =>
          /\ pc # "crashed"
          /\ pc \notin {"constructed", "place_42"} => logo = {}

C10_Witness ==
    /\ pc = "generated" /\ logo # {}
    /\ width = LogoMinW /\ height = LogoMinH

C10_WitnessSmall ==
    /\ pc = "generated" /\ logo = {}
    /\ width = LogoMinW - 1 /\ height = LogoMinH

(***************************************************************************)
(* C11: when the emblem is reserved, no reserved cell is given a distance  *)
(* by get_general_path, none is in the solution cell list and none is      *)
(* stepped on by the moves of the direction string.                        *)
(***************************************************************************)
C11_ReservedOffRoute ==
    (pc \in {"get_general_path", "find_quickest_path", "resolved"} /\ logo # {}) =>
        \A c \in logo :
            /\ dist[c] = None
            /\ c \notin SeqToSet(path)
            /\ c \notin SeqToSet(Replay(entry_point, path_str))

C11_Witness ==
    /\ pc = "resolved" /\ logo # {} /\ found
    /\ width = LogoMinW /\ height = LogoMinH
    /\ entry_point = <<0, 0>> /\ exit_point = <<height - 1, width - 1>>
    /\ Len(path) = Len(path_str) + 1
    /\ \A c \in logo : dist[c] = None /\ c \notin SeqToSet(path)

(***************************************************************************)
(* C12: break_wall never removes more than max(1, floor(h * w / 100))      *)
(* walls: during and after it the count of broken walls is at most that    *)
(* number and the passages are at most that many more than the carved      *)
(* tree has; and every reserved cell keeps the mask the grid               *)
(* initialisation gave it.                                                 *)
(***************************************************************************)
C12_BreakBound ==
    pc \in {"break_loop", "break_try", "generated"} =>
        LET limit == IF (height * width) \div 100 >= 1
                     THEN (height * width) \div 100 ELSE 1
        IN  /\ wall_break <= limit
            /\ Cardinality(Passages) = Cardinality(NonReserved) - 1 + wall_break
            /\ \A c \in logo : maze[c] = BitOr(FullMask, BorderMask(c[1], c[2]))

C12_Witness ==
    /\ pc = "generated" /\ ~perfect /\ logo # {}
    /\ wall_break = 1
    /\ Cardinality(Passages) = Cardinality(NonReserved)

(***************************************************************************)
(* C13: when height = 1 or width = 1, break_wall returns at once and       *)
(* leaves every wall-mask as carving left it.                              *)
(***************************************************************************)
C13_OneWideNoOp ==
    [][(pc \in {"break_wall", "break_loop", "break_try"} /\ (height = 1 \/ width = 1))
          => (maze' = maze /\ pc' = "generated")]_vars

C13_Witness ==
    /\ pc = "generated" /\ ~perfect
    /\ (height = 1 \/ width = 1) /\ height * width >= 3
    /\ wall_break = 0
    /\ Cardinality(Passages) = height * width - 1

(***************************************************************************)
(* C14: generate_maze runs border initialisation, emblem reservation,      *)
(* Wilson carving and loop breaking in that order; the loop breaker runs   *)
(* iff perfect is false; with perfect = true the grid returned is the grid *)
(* left by carving.                                                        *)
(***************************************************************************)
Stage(at) ==
    CASE at = "constructed" -> 0
      [] at = "place_42" -> 1
      [] at \in {"wilson_init", "wilson", "random_walk", "mark", "carve"} -> 2
      [] at \in {"break_wall", "break_loop", "break_try"} -> 3
      [] at = "generated" -> 4
      [] OTHER -> 5

C14_StageOrder ==
    [][Stage(pc) < 4 =>
          /\ Stage(pc') \in {Stage(pc), Stage(pc) + 1}
                \/ (Stage(pc) = 2 /\ Stage(pc') = 4 /\ perfect)
          /\ (Stage(pc) = 2 /\ Stage(pc') = 3) => ~perfect
          /\ Stage(pc') = 3 => ~perfect
          /\ Stage(pc) = 0 => Stage(pc') = 1
          /\ Stage(pc) = 1 => Stage(pc') = 2
          /\ (Stage(pc) = 2 /\ Stage(pc') = 4) => maze' = maze]_vars

C14_Witness ==
    /\ pc = "generated" /\ perfect
    /\ wall_to_break = 0 /\ wall_break = 0
    /\ height >= 2 /\ width >= 2
    /\ \E c \in AllCells : maze[c] # FullMask

(***************************************************************************)
(* C16: resolve_maze (get_general_path, then find_quickest_path) leaves    *)
(* every wall-mask and the reserved set as they were before the call.      *)
(***************************************************************************)
C16_ResolverReadsOnly ==
    [][(pc \in {"generated", "get_general_path", "find_quickest_path"})
          => (maze' = maze /\ logo' = logo)]_vars

C16_Witness ==
    /\ pc = "resolved" /\ found /\ ~perfect
    /\ Len(path_str) >= 2
    /\ \E c \in AllCells : maze[c] # FullMask

(***************************************************************************)
(* C17: the direction string of resolve_maze is a function of the grid,    *)
(* the entry and the exit: at every cell of the route its move is the      *)
(* first of East, West, North, South whose neighbour is in bounds, behind  *)
(* an open wall, one step further from the entry, and a cell from which    *)
(* the exit can be reached by such moves.                                  *)
(***************************************************************************)
\* the cells at distance k from which the exit is reached by moves that
\* each go one step further from the entry through an open wall
RECURSIVE ReachExit(_)
ReachExit(k) ==
    IF k >= dist[exit_point] THEN {exit_point}
    ELSE LET nxt == ReachExit(k + 1)
         IN  {c \in AllCells :
                /\ dist[c] = k
                /\ \E d \in Dirs :
                      Qualifies(maze, dist, c, d, k) /\ Step(c, d) \in nxt}

\* the move from cell c at distance k goes on to the exit
GoesOn(c, d, k) ==
    Qualifies(maze, dist, c, d, k) /\ Step(c, d) \in ReachExit(k + 1)

FirstOfEWNS(c, k) ==
    IF GoesOn(c, "E", k) THEN "E"
    ELSE IF GoesOn(c, "W", k) THEN "W"
    ELSE IF GoesOn(c, "N", k) THEN "N"
    ELSE IF GoesOn(c, "S", k) THEN "S"
    ELSE "none"

C17_CanonicalRoute ==
    (pc = "resolved" /\ dist[exit_point] # None) =>
        /\ Len(path_str) = dist[exit_point]
        /\ \A i \in 1 .. Len(path_str) :
              path_str[i] = FirstOfEWNS(After(entry_point, path_str, i - 1), i - 1)

\* a resolution where two shortest routes exist and the order decides
C17_Witness ==
    /\ pc = "resolved" /\ found /\ dist[exit_point] # None
    /\ \E i \in 1 .. Len(path_str) :
          /\ path_str[i] = "E"
          /\ \E d \in {"N", "S"} :
                GoesOn(After(entry_point, path_str, i - 1), d, i - 1)

(***************************************************************************)
(* C15: after any sequence of generate_maze / resolve_maze rounds on the   *)
(* same MazeGenerator, the direction string is a route of the newest grid  *)
(* from the entry to the exit and the solution cell list holds only cells  *)
(* of that route.                                                          *)
(***************************************************************************)
C15_NoLeftover ==
    pc = "resolved" =>
        /\ MovesOpen(entry_point, path_str)
        /\ Last(Replay(entry_point, path_str)) = exit_point
        /\ SeqToSet(path) \subseteq SeqToSet(Replay(entry_point, path_str))

(***************************************************************************)
(* C19: when the exit has no distance, resolve_maze does not crash and the *)
(* caller is handed a failed resolution: the flag is false, the direction  *)
(* string is empty and the solution cell list does not reach the exit.     *)
(***************************************************************************)
C19_FailureSurfaced ==
    /\ (pc = "find_quickest_path" /\ PathGet(dist, exit_point) = None)
          => ENABLED (FqpStep \/ ResolveEnd)
    /\ (pc = "resolved" /\ PathGet(dist, exit_point) = None) =>
          /\ ~found
          /\ path_str = <<>>
          /\ exit_point \notin SeqToSet(path)

(***************************************************************************)
(* C20: a MazeGenerator with width 0 or height 0 never fails inside        *)
(* generate_maze: construction has rejected it.                            *)
(***************************************************************************)
C20_ZeroRejected ==
    (width = 0 \/ height = 0) => pc # "crashed"

(***************************************************************************)
(* C18: every iteration of the outer loop of wilson takes at least the     *)
(* chosen start cell out of unvisited and into visited; a random walk that *)
(* returns has ended on a visited cell; and under fair random choices the  *)
(* unvisited set eventually becomes empty.                                 *)
(***************************************************************************)
C18_WilsonTerminates ==
    /\ [][pc = "mark" =>
            /\ w_path[1] \in unvisited
            /\ w_path[1] \in visited' /\ w_path[1] \notin unvisited'
            /\ unvisited' \subseteq unvisited
            /\ Cardinality(unvisited') < Cardinality(unvisited)]_vars
    /\ [](pc = "mark" => Last(w_path) \in visited)
    /\ <>(pc = "wilson" /\ unvisited = {})

\* a walk that erased a loop and then reached the visited cells
C18_Witness ==
    /\ pc = "mark" /\ rng = 0
    /\ Len(w_path) >= 3
    /\ Last(w_path) \in visited
    /\ Cardinality(unvisited) >= 4

(***************************************************************************)
(* C21: check_walls called with a point out of bounds, a negative row or   *)
(* column included, fails with an error and does not return the wall bit   *)
(* of some other cell.                                                     *)
(***************************************************************************)
C21_OutOfBoundsFails ==
    \A i \in DOMAIN called :
        ~check_bounds(called[i].point) => called[i].ret = "IndexError"

(***************************************************************************)
(* C22: ParsingValidator accepts a configuration if and only if            *)
(* 1 <= width <= 120, 1 <= height <= 120, entry and exit have non-negative *)
(* coordinates with row < height and col < width, entry # exit, and        *)
(* output_file is not empty; any other configuration is rejected with a    *)
(* validation error.                                                       *)
(***************************************************************************)
C22_AcceptsIff ==
    pc # "parsed" =>
        (pc = "accepted" <=>
            /\ 1 <= width /\ width <= 120
            /\ 1 <= height /\ height <= 120
            /\ \A pt \in {entry_point, exit_point} :
                  /\ 0 <= pt[1] /\ pt[1] < height
                  /\ 0 <= pt[2] /\ pt[2] < width
            /\ entry_point # exit_point
            /\ output_file # "")

C22_Witness ==
    /\ pc = "accepted"
    /\ width = 120 /\ height = 1
    /\ entry_point = <<0, MaxW>>

(***************************************************************************)
(* C23: in the top-level pipeline every configuration that passes the      *)
(* validation has an entry and an exit that satisfy the bounds check of    *)
(* the engine, which reads them as (row, col): row < height and            *)
(* col < width, on non-square grids too.                                   *)
(***************************************************************************)
C23_AcceptedInBounds ==
    pc = "accepted" => top_check_bounds(entry_point) /\ top_check_bounds(exit_point)

(***************************************************************************)
(* C24: loop erasure keeps the walk well-formed.  At every step of         *)
(* random_walk the path has no repeated cell, walls has one element less   *)
(* than path, and walls[i] is the direction from path[i] to the adjacent   *)
(* cell path[i + 1].  A step onto a cell already in the path truncates     *)
(* path and walls back to the earlier occurrence of that cell, and the     *)
(* walk resumes from it; any other step appends the cell and its           *)
(* direction.                                                              *)
(***************************************************************************)
WalkWellFormed ==
    /\ \A i, j \in 1 .. Len(w_path) : w_path[i] = w_path[j] => i = j
    /\ Len(walls) = Len(w_path) - 1
    /\ \A i \in 1 .. Len(walls) : Step(w_path[i], walls[i]) = w_path[i + 1]
    /\ start = Last(w_path)

Erasure ==
    (pc = "random_walk" /\ start' # start) =>
        /\ \E d \in Dirs : Step(start, d) = start'
        /\ IF start' \in SeqToSet(w_path)
           THEN \E index \in 1 .. Len(w_path) :
                   /\ w_path[index] = start'
                   /\ w_path' = SubSeq(w_path, 1, index)
                   /\ walls' = SubSeq(walls, 1, index - 1)
           ELSE /\ w_path' = Append(w_path, start')
                /\ \E d \in Dirs : Step(start, d) = start' /\ walls' = Append(walls, d)

C24_LoopErasure ==
    /\ [](pc \in {"random_walk", "mark"} => WalkWellFormed)
    /\ [][Erasure]_vars

\* a walk of four cells or more whose last cell touches an earlier cell that
\* is not its predecessor: the next step can close a loop
C24_Witness ==
    /\ pc = "random_walk"
    /\ Len(w_path) >= 4
    /\ \E i \in 1 .. Len(w_path) - 2, d \in Dirs : Step(start, d) = w_path[i]

(***************************************************************************)
(* C25: for every validated configuration, perfect or not, generate_maze   *)
(* followed by resolve_maze finds a route: no step fails, the exit has a   *)
(* finite distance in the map of get_general_path, and                     *)
(* find_quickest_path returns found = True with a direction string that    *)
(* is not empty.                                                           *)
(***************************************************************************)
C25_RouteFound ==
    /\ pc # "crashed"
    /\ pc \in {"find_quickest_path", "resolved"} => dist[exit_point] # None
    /\ pc = "resolved" => (found /\ path_str # <<>>)

C25_Witness ==
    /\ pc = "resolved" /\ ~perfect
    /\ found /\ Len(path_str) >= 2
    /\ dist[exit_point] = Len(path_str)

(***************************************************************************)
(* C26: on every valid grid with height >= 2 and width >= 2, with or       *)
(* without the emblem, break_wall ends normally having removed exactly     *)
(* max(1, floor(height * width / 100)) distinct walls: the list of         *)
(* candidates is never empty before the target is reached, so              *)
(* random.choice is never called on an empty list.                         *)
(***************************************************************************)
C26_BreakCompletes ==
    (height >= 2 /\ width >= 2) =>
        /\ pc # "crashed"
        /\ (pc = "break_loop" /\ wall_break # wall_to_break) => bw_path # <<>>
        /\ (Generated /\ ~perfect) =>
              Cardinality(Passages) =
                  Cardinality(NonReserved) - 1 + Max(1, (height * width) \div 100)

C26_Witness ==
    /\ pc = "generated" /\ ~perfect /\ logo # {}
    /\ height >= 2 /\ width >= 2
    /\ wall_break = 1
    /\ Cardinality(Passages) = Cardinality(NonReserved)

(***************************************************************************)
(* C27: wall bits are only ever cleared.  Every change of the grid made by *)
(* wilson and by break_wall clears one bit that is 1 on both cells of a    *)
(* wall, so each mask stays within 0 .. 15 and never gets back a bit it    *)
(* has lost, from its initial value 15 to the end of generate_maze.        *)
(***************************************************************************)
ClearsOneWall ==
    \E c \in DOMAIN maze, d \in Dirs :
        LET n == Step(c, d)
        IN  /\ n \in DOMAIN maze
            /\ check_walls(maze, c, d)
            /\ check_walls(maze, n, Opposite(d))
            /\ maze' = [maze EXCEPT ![c] = @ - BitOf(d),
                                    ![n] = @ - BitOf(Opposite(d))]

C27_OnlyCleared ==
    /\ [](\A c \in DOMAIN maze : maze[c] \in 0 .. 15)
    /\ [](pc = "place_42" => \A c \in DOMAIN maze : maze[c] = 15)
    /\ [][(pc # "constructed" /\ maze' # maze) => ClearsOneWall]_vars

\* wilson and break_wall have both cleared bits, and some cell has only one
\* wall left
C27_Witness ==
    /\ pc = "generated" /\ ~perfect
    /\ wall_break = 1
    /\ \E c \in AllCells : maze[c] \in {1, 2, 4, 8}

(***************************************************************************)
(* C28: for every grid with width >= 9 and height >= 7, every cell of the  *)
(* emblem pattern computed by place_42 is inside the grid (rows            *)
(* middle_h - 2 .. middle_h + 2, columns middle_w - 3 .. middle_w + 3), so *)
(* removing the reserved cells from unvisited in wilson never fails on a   *)
(* missing cell.                                                           *)
(***************************************************************************)
C28_EmblemInside ==
    /\ pc = "place_42" =>
          \A h \in 7 .. 7 + MaxGrow, w \in 9 .. 9 + MaxGrow :
              /\ Pattern42(h, w) \subseteq Cells(h, w)
              /\ Pattern42(h, w) \subseteq
                    ((h \div 2) - 2 .. (h \div 2) + 2) \X ((w \div 2) - 3 .. (w \div 2) + 3)
    /\ (width >= 9 /\ height >= 7) =>
          /\ pc # "crashed"
          /\ logo \subseteq AllCells
          /\ pc \in {"wilson", "random_walk", "mark", "carve"} =>
                /\ unvisited \cap logo = {}
                /\ visited \cap logo = {}

C28_Witness ==
    /\ pc = "wilson"
    /\ width >= 9 /\ height >= 7
    /\ logo = Pattern42(height, width)
    /\ visited = {entry_point}
    /\ unvisited = (AllCells \ logo) \ {entry_point}

(***************************************************************************)
(* C29: resolve_maze is idempotent on an unchanged grid: after a second    *)
(* call made without regenerating, the stored direction string and the     *)
(* stored solution cell list are equal to what they were after the first   *)
(* call.                                                                   *)
(***************************************************************************)
C29_ResolveIdempotent ==
    (pc = "resolved" /\ saved # <<>>) =>
        /\ path_str = saved[1].path_str
        /\ path = saved[1].path

(***************************************************************************)
(* C30: break_wall leaves the shared direction table MazeGenerator.dir     *)
(* unchanged: the directions it has tried are removed from the copy made   *)
(* for the candidate only, so that after loop breaking the BFS and the     *)
(* reconstruction still examine the four directions in the order           *)
(* E, W, N, S.                                                             *)
(***************************************************************************)
C30_DirUnchanged ==
    /\ dir = <<"E", "W", "N", "S">>
    /\ pc = "break_try" =>
          /\ Len(dir_cpy) = Len(dir) - tries
          /\ SeqToSet(dir_cpy) \subseteq SeqToSet(dir)

\* three directions were removed from the copy of a candidate in vain, and
\* the table still holds the four
C30_Witness ==
    /\ pc = "break_try" /\ tries = 3
    /\ Len(dir_cpy) = 1
    /\ dir = <<"E", "W", "N", "S">>

====
